---- MODULE Spec2Model ----
(***************************************************************************)
(* A model of the CHIP-8 interpreter core of chipurat8 (src/src/chip8.rs)  *)
(* and of the host loop that drives it (src/src/main.rs).                  *)
(*                                                                         *)
(* The state is the Chip8 struct, field by field.  A panic of the Rust     *)
(* code (an unknown opcode, an index out of bounds, expect() on None)      *)
(* ends the process: the model records it in `halted`, with the fields as  *)
(* they were when the panic was raised, and takes no further step.         *)
(*                                                                         *)
(* Two arrays are held in a compact form: `memory` ([u8; 4096]) as the map *)
(* of its non-zero bytes, read with MemRead and written with MemWrite, and *)
(* `screen` ([usize; 2048], whose cells only ever hold 0 or 1) as the set  *)
(* of the cells that hold 1.  Every indexing of either array is checked    *)
(* against the array's length, as Rust checks it.                          *)
(***************************************************************************)
EXTENDS Integers, Sequences, FiniteSets, TLC

\* ------------------------------------------------------------------ sizes

WIDTH == 64
HEIGHT == 32
MEM_SIZE == 4096
NUM_REGS == 16
NUM_KEYS == 16
ENTRY == 512
FONT_BASE == 80
ROM_END == 4095

\* Bounds of the exploration (not program constants).
MaxCycles == 7
MaxStack == 3

\* Cycles of a run of the index-register loop.
MaxIndexCycles == 285

\* ------------------------------------------------------------ u8 helpers

Bit(b, k) == (b \div (2 ^ k)) % 2

\* Bitwise operators of Rust on u8 values, bit by bit.
BitOr(a, b) ==
    LET o(k) == IF Bit(a, k) = 1 \/ Bit(b, k) = 1 THEN 2 ^ k ELSE 0
    IN o(0) + o(1) + o(2) + o(3) + o(4) + o(5) + o(6) + o(7)

BitAnd(a, b) ==
    LET o(k) == IF Bit(a, k) = 1 /\ Bit(b, k) = 1 THEN 2 ^ k ELSE 0
    IN o(0) + o(1) + o(2) + o(3) + o(4) + o(5) + o(6) + o(7)

BitXor(a, b) ==
    LET o(k) == IF Bit(a, k) # Bit(b, k) THEN 2 ^ k ELSE 0
    IN o(0) + o(1) + o(2) + o(3) + o(4) + o(5) + o(6) + o(7)

\* u8::wrapping_add
wrapping_add(a, b) == (a + b) % 256

\* u8::overflowing_add: the wrapped sum and whether the addition overflowed.
overflowing_add_carry_off_by_one(a, b) ==
    [res |-> (a + b) % 256, flag |-> (a + b >= 255)]

overflowing_add(a, b) == [res |-> (a + b) % 256, flag |-> (a + b > 255)]

\* u8::overflowing_sub: the wrapped difference and whether it underflowed.
overflowing_sub(a, b) == [res |-> (a - b + 256) % 256, flag |-> (a < b)]

\* ------------------------------------------------------- operand decoding

get_addr(op) == op % 4096

get_opx(op) == (op \div 256) % 16

get_opy(op) == (op \div 16) % 16

\* op & 0x00FF
get_nn(op) == op % 256

\* op & 0x000F
get_n(op) == op % 16

\* op & 0xF000, as the nibble itself
top_nibble(op) == op \div 4096

\* ------------------------------------------------------------- font table

CHIP8_FONTSET ==
    << 240, 144, 144, 144, 240,
       32, 96, 32, 32, 112,
       240, 16, 240, 128, 240,
       240, 16, 240, 16, 240,
       144, 144, 240, 16, 16,
       240, 128, 240, 16, 240,
       240, 128, 240, 144, 240,
       240, 16, 32, 64, 64,
       240, 144, 240, 144, 240,
       240, 144, 240, 16, 240,
       240, 144, 240, 144, 144,
       224, 144, 224, 144, 224,
       240, 128, 128, 128, 240,
       224, 144, 144, 144, 224,
       240, 128, 240, 128, 240,
       240, 128, 240, 128, 128 >>

\* ---------------------------------------------------- the result of an arm

\* enum PCUpdateFlag, with Set's address beside it.  "Panic" is not a variant
\* of the enum: it marks an arm that panicked instead of returning.
PCUpdateFlag == {"Next", "Skip", "Block", "Set"}

Res(c, flag, addr) == [c |-> c, flag |-> flag, addr |-> addr]

Panic(c) == Res(c, "Panic", 0)

Min(S) == CHOOSE m \in S : \A n \in S : m <= n

\* self.memory[a], for a < MEM_SIZE
MemRead(m, a) == IF a \in DOMAIN m THEN m[a] ELSE 0

\* memory after self.memory[a] = w[a] for every a in the domain of w
MemWrite(m, w) ==
    LET at(a) == IF a \in DOMAIN w THEN w[a] ELSE m[a]
    IN [a \in {b \in DOMAIN m \cup DOMAIN w : at(b) # 0} |-> at(a)]

\* ------------------------------------------------------------ opcode arms
\* Each arm takes the core `c` (a record of the struct's fields) and the
\* opcode, and gives the core after the arm with the flag it returns.

\* 00E0
Op00E0(c) == Res([c EXCEPT !.screen = {}], "Next", 0)

\* 00EE: self.pc = self.stack.pop().expect(..)
Op00EE_unchecked(c) ==
    IF Len(c.stack) = 0
    THEN Res([c EXCEPT !.pc = 0], "Next", 0)
    ELSE Res([c EXCEPT !.pc = c.stack[Len(c.stack)],
                       !.stack = SubSeq(c.stack, 1, Len(c.stack) - 1)],
             "Next", 0)

Op00EE_fifo(c) ==
    IF Len(c.stack) = 0
    THEN Panic(c)
    ELSE Res([c EXCEPT !.pc = c.stack[1],
                       !.stack = SubSeq(c.stack, 2, Len(c.stack))],
             "Next", 0)

Op00EE(c) ==
    IF Len(c.stack) = 0
    THEN Panic(c)
    ELSE Res([c EXCEPT !.pc = c.stack[Len(c.stack)],
                       !.stack = SubSeq(c.stack, 1, Len(c.stack) - 1)],
             "Next", 0)

\* 0x0000 arm: match op & 0x00FF
Arm0(c, op) ==
    CASE get_nn(op) = 224 -> Op00E0(c)
      [] get_nn(op) = 238 -> Op00EE(c)
      [] OTHER -> Panic(c)

\* 1NNN
Op1NNN(c, op) == Res(c, "Set", get_addr(op))

\* 2NNN
Op2NNN(c, op) ==
    Res([c EXCEPT !.stack = Append(c.stack, c.pc)], "Set", get_addr(op))

\* The closures the arms pass to cond_skip_v, cond_skip_n and set_vx, each
\* named by its body's operator.
Closure(f, x, y) ==
    CASE f = "==" -> x = y
      [] f = "!=" -> x # y
      [] f = "|" -> BitOr(x, y)
      [] f = "&" -> BitAnd(x, y)
      [] f = "^" -> BitXor(x, y)

cond_skip_v(c, op, f) ==
    LET vx == c.v[get_opx(op)]
        vy == c.v[get_opy(op)]
    IN IF Closure(f, vx, vy) THEN Res(c, "Skip", 0) ELSE Res(c, "Next", 0)

cond_skip_n(c, op, f) ==
    LET vx == c.v[get_opx(op)]
        nn == get_nn(op)
    IN IF Closure(f, vx, nn) THEN Res(c, "Skip", 0) ELSE Res(c, "Next", 0)

set_vx(c, op, f) ==
    LET pvx == get_opx(op)
        pvy == get_opy(op)
    IN Res([c EXCEPT !.v[pvx] = Closure(f, c.v[pvx], c.v[pvy])], "Next", 0)

\* 6XNN
Op6XNN(c, op) == Res([c EXCEPT !.v[get_opx(op)] = get_nn(op)], "Next", 0)

\* 7XNN
Op7XNN_no_wrap(c, op) ==
    LET vx == get_opx(op)
    IN Res([c EXCEPT !.v[vx] = IF c.v[vx] + get_nn(op) > 255
                               THEN 255 ELSE c.v[vx] + get_nn(op)], "Next", 0)

Op7XNN(c, op) ==
    LET vx == get_opx(op)
        res == wrapping_add(c.v[vx], get_nn(op))
    IN Res([c EXCEPT !.v[vx] = res], "Next", 0)

\* 8XY0
Op8XY0(c, op) ==
    Res([c EXCEPT !.v[get_opx(op)] = c.v[get_opy(op)]], "Next", 0)

\* The flag register is written first, the result second (so that with
\* X = 15 the result overwrites the flag).
FlagThenResult(c, pvx, r) ==
    LET v1 == [c.v EXCEPT ![15] = IF r.flag THEN 1 ELSE 0]
    IN Res([c EXCEPT !.v = [v1 EXCEPT ![pvx] = r.res]], "Next", 0)

\* 8XY4
Op8XY4(c, op) ==
    FlagThenResult(c, get_opx(op),
                   overflowing_add(c.v[get_opx(op)], c.v[get_opy(op)]))

\* 8XY5
Op8XY5(c, op) ==
    FlagThenResult(c, get_opx(op),
                   overflowing_sub(c.v[get_opx(op)], c.v[get_opy(op)]))

\* 8XY6
Op8XY6(c, op) ==
    LET pvx == get_opx(op)
        v1 == [c.v EXCEPT ![15] = BitAnd(c.v[pvx], 1)]
    IN Res([c EXCEPT !.v = [v1 EXCEPT ![pvx] = v1[pvx] \div 2]], "Next", 0)

\* 8XY7
Op8XY7(c, op) ==
    FlagThenResult(c, get_opx(op),
                   overflowing_sub(c.v[get_opy(op)], c.v[get_opx(op)]))

\* 8XYE
Op8XYE(c, op) ==
    LET pvx == get_opx(op)
        v1 == [c.v EXCEPT ![15] = BitAnd(c.v[pvx], 1)]
    IN Res([c EXCEPT !.v = [v1 EXCEPT ![pvx] = (v1[pvx] * 2) % 256]], "Next", 0)

\* 0x8000 arm: match op & 0x000F
Arm8(c, op) ==
    CASE get_n(op) = 0 -> Op8XY0(c, op)
      [] get_n(op) = 1 -> set_vx(c, op, "|")
      [] get_n(op) = 2 -> set_vx(c, op, "&")
      [] get_n(op) = 3 -> set_vx(c, op, "^")
      [] get_n(op) = 4 -> Op8XY4(c, op)
      [] get_n(op) = 5 -> Op8XY5(c, op)
      [] get_n(op) = 6 -> Op8XY6(c, op)
      [] get_n(op) = 7 -> Op8XY7(c, op)
      [] get_n(op) = 14 -> Op8XYE(c, op)
      [] OTHER -> Panic(c)

\* ANNN
OpANNN(c, op) == Res([c EXCEPT !.i = get_addr(op)], "Next", 0)

\* BNNN
OpBNNN(c, op) == Res(c, "Set", get_addr(op) + c.v[0])

\* Uniform::new(0, 255): the half-open range [0, 255).
UniformRange == 0..254

\* CXNN, with `num` the sample drawn
OpCXNN(c, op, num) ==
    Res([c EXCEPT !.v[get_opx(op)] = BitAnd(num, get_nn(op))], "Next", 0)

\* DXYN.  Step k of the two loops is row y = k \div 8, column x = k % 8.
\* The row's byte memory[i + y] is read at the head of the row, and a set bit
\* reads and writes screen[location]: both are bounds-checked indexings, so
\* the first step whose index is out of range panics, with the cells of the
\* steps before it already drawn.
SpriteBit(c, k) == Bit(MemRead(c.memory, c.i + (k \div 8)), 7 - (k % 8))

Location(vx, vy, k) == vx + (k % 8) + ((vy + (k \div 8)) * WIDTH)

DrawFaults(c, vx, vy, n) ==
    {k \in 0..(8 * n - 1) :
        \/ c.i + (k \div 8) >= MEM_SIZE
        \/ /\ SpriteBit(c, k) = 1
           /\ Location(vx, vy, k) >= WIDTH * HEIGHT}

\* The steps that run to their end: all of them, or those before the panic.
DrawSteps(c, vx, vy, n) ==
    IF DrawFaults(c, vx, vy, n) = {}
    THEN 0..(8 * n - 1)
    ELSE 0..(Min(DrawFaults(c, vx, vy, n)) - 1)

\* The cells the draw flips: one per set sprite bit (no two steps of one
\* draw address the same cell, as x < 8 <= WIDTH).
DrawnCells(c, vx, vy, n) ==
    {Location(vx, vy, k) : k \in {j \in DrawSteps(c, vx, vy, n) : SpriteBit(c, j) = 1}}

OpDXYN_no_collision(c, op) ==
    LET vx == c.v[get_opx(op)]
        vy == c.v[get_opy(op)]
        n == get_n(op)
        cells == DrawnCells(c, vx, vy, n)
        c1 == [c EXCEPT !.v[15] = 0,
                        !.screen = (c.screen \ cells) \cup (cells \ c.screen)]
    IN IF DrawFaults(c, vx, vy, n) = {} THEN Res(c1, "Next", 0) ELSE Panic(c1)

OpDXYN(c, op) ==
    LET vx == c.v[get_opx(op)]
        vy == c.v[get_opy(op)]
        n == get_n(op)
        cells == DrawnCells(c, vx, vy, n)
        vf == IF \E p \in cells : p \in c.screen THEN 1 ELSE 0
        c1 == [c EXCEPT !.v[15] = vf,
                        !.screen = (c.screen \ cells) \cup (cells \ c.screen)]
    IN IF DrawFaults(c, vx, vy, n) = {} THEN Res(c1, "Next", 0) ELSE Panic(c1)

\* EX9E: self.keys[vx] panics when vx is no key number
OpEX9E(c, op) ==
    LET vx == c.v[get_opx(op)]
    IN IF vx >= NUM_KEYS THEN Panic(c)
       ELSE IF c.keys[vx] = 1 THEN Res(c, "Skip", 0) ELSE Res(c, "Next", 0)

\* EXA1
OpEXA1(c, op) ==
    LET vx == c.v[get_opx(op)]
    IN IF vx >= NUM_KEYS THEN Panic(c)
       ELSE IF c.keys[vx] # 1 THEN Res(c, "Skip", 0) ELSE Res(c, "Next", 0)

\* 0xE000 arm: match op & 0x00FF
ArmE(c, op) ==
    CASE get_nn(op) = 158 -> OpEX9E(c, op)
      [] get_nn(op) = 161 -> OpEXA1(c, op)
      [] OTHER -> Panic(c)

\* FX07
OpFX07(c, op) == Res([c EXCEPT !.v[get_opx(op)] = c.delay_timer], "Next", 0)

\* FX0A: the first key of 0..16 that is pressed, or Block
OpFX0A_highest(c, op) ==
    LET pressed == {k \in 0..(NUM_KEYS - 1) : c.keys[k] = 1}
    IN IF pressed # {}
       THEN Res([c EXCEPT !.v[get_opx(op)] =
                    CHOOSE m \in pressed : \A n \in pressed : m >= n],
                "Next", 0)
       ELSE Res(c, "Block", 0)

OpFX0A(c, op) ==
    LET pressed == {k \in 0..(NUM_KEYS - 1) : c.keys[k] = 1}
    IN IF pressed # {}
       THEN Res([c EXCEPT !.v[get_opx(op)] = Min(pressed)], "Next", 0)
       ELSE Res(c, "Block", 0)

\* FX15
OpFX15(c, op) == Res([c EXCEPT !.delay_timer = c.v[get_opx(op)]], "Next", 0)

\* FX18
OpFX18(c, op) == Res([c EXCEPT !.sound_timer = c.v[get_opx(op)]], "Next", 0)

\* FX1E: usize::wrapping_add.  The index register is a usize; its wrap at
\* the word size is out of reach of any run explored here.
OpFX1E(c, op) == Res([c EXCEPT !.i = c.i + c.v[get_opx(op)]], "Next", 0)

\* FX29: (self.v[x] + 0x050) as usize, a u8 addition.  When it overflows, a
\* build with overflow checks panics and a build without them wraps;
\* `checks` is which of the two the build is.
OpFX29(c, op, checks) ==
    LET sum == c.v[get_opx(op)] + FONT_BASE
    IN IF sum > 255 /\ checks
       THEN Panic(c)
       ELSE Res([c EXCEPT !.i = sum % 256], "Next", 0)

\* FX33: for i in (0..3).rev(): memory[I + 2] is written first, so an index
\* register above MEM_SIZE - 3 panics before any byte is written.
OpFX33(c, op) ==
    LET vx == c.v[get_opx(op)]
    IN IF c.i + 2 >= MEM_SIZE
       THEN Panic(c)
       ELSE Res([c EXCEPT !.memory =
                    MemWrite(c.memory,
                             [a \in c.i..(c.i + 2) |->
                                CASE a = c.i + 2 -> vx % 10
                                  [] a = c.i + 1 -> (vx \div 10) % 10
                                  [] a = c.i -> (vx \div 100) % 10])],
                "Next", 0)

\* FX55: registers 0..=X to memory[I..], in rising order; the first index
\* out of range panics, with the bytes before it written.
OpFX55_exclusive(c, op) ==
    LET vx == get_opx(op)
        done == {k \in 0..(vx - 1) : c.i + k < MEM_SIZE}
        c1 == [c EXCEPT !.memory =
                  MemWrite(c.memory, [a \in {c.i + k : k \in done} |-> c.v[a - c.i]])]
    IN IF c.i + vx < MEM_SIZE THEN Res(c1, "Next", 0) ELSE Panic(c1)

OpFX55(c, op) ==
    LET vx == get_opx(op)
        done == {k \in 0..vx : c.i + k < MEM_SIZE}
        c1 == [c EXCEPT !.memory =
                  MemWrite(c.memory, [a \in {c.i + k : k \in done} |-> c.v[a - c.i]])]
    IN IF c.i + vx < MEM_SIZE THEN Res(c1, "Next", 0) ELSE Panic(c1)

\* FX65: memory[I..] to registers 0..=X, in rising order
OpFX65(c, op) ==
    LET vx == get_opx(op)
        done == {k \in 0..vx : c.i + k < MEM_SIZE}
        c1 == [c EXCEPT !.v = [r \in 0..(NUM_REGS - 1) |->
                                 IF r \in done THEN MemRead(c.memory, c.i + r)
                                 ELSE c.v[r]]]
    IN IF c.i + vx < MEM_SIZE THEN Res(c1, "Next", 0) ELSE Panic(c1)

\* 0xF000 arm: match op & 0x00FF
ArmF(c, op, checks) ==
    CASE get_nn(op) = 7 -> OpFX07(c, op)
      [] get_nn(op) = 10 -> OpFX0A(c, op)
      [] get_nn(op) = 21 -> OpFX15(c, op)
      [] get_nn(op) = 24 -> OpFX18(c, op)
      [] get_nn(op) = 30 -> OpFX1E(c, op)
      [] get_nn(op) = 41 -> OpFX29(c, op, checks)
      [] get_nn(op) = 51 -> OpFX33(c, op)
      [] get_nn(op) = 85 -> OpFX55(c, op)
      [] get_nn(op) = 101 -> OpFX65(c, op)
      [] OTHER -> Panic(c)

\* match op & 0xF000.  `num` is the sample CXNN draws and `checks` whether
\* the build checks arithmetic overflow.
execute_opcode(c, op, num, checks) ==
    CASE top_nibble(op) = 0 -> Arm0(c, op)
      [] top_nibble(op) = 1 -> Op1NNN(c, op)
      [] top_nibble(op) = 2 -> Op2NNN(c, op)
      [] top_nibble(op) = 3 -> cond_skip_n(c, op, "==")
      [] top_nibble(op) = 4 -> cond_skip_n(c, op, "!=")
      [] top_nibble(op) = 5 -> cond_skip_v(c, op, "==")
      [] top_nibble(op) = 6 -> Op6XNN(c, op)
      [] top_nibble(op) = 7 -> Op7XNN(c, op)
      [] top_nibble(op) = 8 -> Arm8(c, op)
      [] top_nibble(op) = 9 -> cond_skip_v(c, op, "!=")
      [] top_nibble(op) = 10 -> OpANNN(c, op)
      [] top_nibble(op) = 11 -> OpBNNN(c, op)
      [] top_nibble(op) = 12 -> OpCXNN(c, op, num)
      [] top_nibble(op) = 13 -> OpDXYN(c, op)
      [] top_nibble(op) = 14 -> ArmE(c, op)
      [] top_nibble(op) = 15 -> ArmF(c, op, checks)

\* ------------------------------------------------------------------ state

VARIABLES
    rom,          \* the bytes of the file at `path` (never written)
    memory,       \* [u8; 4096], as the map of its non-zero bytes
    stack,        \* Vec<usize>
    v,            \* [u8; 16]
    i,            \* usize
    pc,           \* usize
    delay_timer,  \* u8
    sound_timer,  \* u8
    keys,         \* [u8; 16]
    screen,       \* [usize; WIDTH*HEIGHT], as the set of its cells that are 1
    halted,       \* the process has panicked
    beep,         \* the last step printed "BEEP"
    tone,         \* the last step appended a tone to the audio sink
    cycles        \* calls of run_cycle so far

vars == << rom, memory, stack, v, i, pc, delay_timer, sound_timer, keys,
           screen, halted, beep, tone, cycles >>

\* The fields of the struct, as one record.
Core ==
    [memory |-> memory, stack |-> stack, v |-> v, i |-> i, pc |-> pc,
     delay_timer |-> delay_timer, sound_timer |-> sound_timer,
     keys |-> keys, screen |-> screen]

\* Chip8::new()
new ==
    [memory |-> [a \in {} |-> 0],
     stack |-> << >>,
     v |-> [r \in 0..(NUM_REGS - 1) |-> 0],
     i |-> 0,
     pc |-> ENTRY,
     delay_timer |-> 0,
     sound_timer |-> 0,
     keys |-> [k \in 0..(NUM_KEYS - 1) |-> 0],
     screen |-> {}]

\* f.read(&mut self.memory[0x200..0xFFF]): the file's bytes fill the slice
\* from its start, as many as the slice holds.
load_rom(c, file) ==
    LET n == IF Len(file) < ROM_END - ENTRY THEN Len(file) ELSE ROM_END - ENTRY
    IN [c EXCEPT !.memory =
          MemWrite(c.memory, [a \in ENTRY..(ENTRY + n - 1) |-> file[a - ENTRY + 1]])]

load_font(c) ==
    [c EXCEPT !.memory =
        MemWrite(c.memory,
                 [a \in FONT_BASE..(FONT_BASE + Len(CHIP8_FONTSET) - 1) |->
                    CHIP8_FONTSET[a - FONT_BASE + 1]])]

\* Chip8::init
init(c, file) == load_font(load_rom(c, file))

\* ------------------------------------------------------------- run_cycle

\* (memory[pc] as u16) << 8 | memory[pc + 1] as u16
fetch_opcode(c) == MemRead(c.memory, c.pc) * 256 + MemRead(c.memory, c.pc + 1)

\* The match on the flag execute_opcode returned.
update_pc_skip_as_next(r) ==
    CASE r.flag = "Next" -> [r.c EXCEPT !.pc = @ + 2]
      [] r.flag = "Skip" -> [r.c EXCEPT !.pc = @ + 2]
      [] r.flag = "Set" -> [r.c EXCEPT !.pc = r.addr]
      [] r.flag = "Block" -> r.c

update_pc(r) ==
    CASE r.flag = "Next" -> [r.c EXCEPT !.pc = @ + 2]
      [] r.flag = "Skip" -> [r.c EXCEPT !.pc = @ + 4]
      [] r.flag = "Set" -> [r.c EXCEPT !.pc = r.addr]
      [] r.flag = "Block" -> r.c

\* if self.delay_timer > 0 { self.delay_timer -= 1 }
cycle_delay_wrapping(c) == [c EXCEPT !.delay_timer = (@ + 255) % 256]

cycle_delay(c) ==
    IF c.delay_timer > 0 THEN [c EXCEPT !.delay_timer = @ - 1] ELSE c

\* if self.sound_timer == 1 { println!("BEEP") }, inside sound_timer > 0
cycle_beep_any(c) == c.sound_timer > 0

cycle_beep(c) == c.sound_timer > 0 /\ c.sound_timer = 1

\* if self.sound_timer > 0 { ...; self.sound_timer -= 1 }
cycle_sound(c) ==
    IF c.sound_timer > 0 THEN [c EXCEPT !.sound_timer = @ - 1] ELSE c

\* One call of run_cycle on core c: the core it leaves, whether it panicked
\* and whether it printed BEEP.
run_cycle(c, num, checks) ==
    IF c.pc + 1 >= MEM_SIZE
    THEN [c |-> c, panicked |-> TRUE, beep |-> FALSE]
    ELSE LET r == execute_opcode(c, fetch_opcode(c), num, checks)
         IN IF r.flag = "Panic"
            THEN [c |-> r.c, panicked |-> TRUE, beep |-> FALSE]
            ELSE LET c1 == update_pc(r)
                     c2 == cycle_delay(c1)
                 IN [c |-> cycle_sound(c2), panicked |-> FALSE,
                     beep |-> cycle_beep(c2)]

\* ------------------------------------------------------- the ROMs explored

\* The instruction word with nibbles a b c d.
W(a, b, c, d) == a * 4096 + b * 256 + c * 16 + d

\* An instruction word with a low byte.
WB(a, b, nn) == a * 4096 + b * 256 + nn

\* A sequence of instruction words as the file's bytes, big-endian.
Bytes(ws) ==
    [k \in 1..(2 * Len(ws)) |->
        IF k % 2 = 1 THEN ws[(k + 1) \div 2] \div 256 ELSE ws[k \div 2] % 256]

ArithVals == {0, 5, 10, 250, 255}
AddVals == {0, 3, 5, 250, 255}
RegPairs == {<<0, 1>>, <<1, 1>>, <<1, 15>>, <<15, 1>>, <<0, 15>>, <<14, 0>>}

\* 6XNN ; 7XMM
AddRoms ==
    {Bytes(<<WB(6, x, a), WB(7, x, b)>>) :
        x \in {0, 7, 15}, a \in AddVals, b \in AddVals}

\* 6X a ; 6Y b ; 8XYn, for every n
ArithRoms ==
    {Bytes(<<WB(6, xy[1], a), WB(6, xy[2], b), W(8, xy[1], xy[2], n)>>) :
        xy \in RegPairs, a \in ArithVals, b \in ArithVals, n \in 0..15}

SkipVals == {0, 5, 255}

\* 6X a ; 3XNN or 4XNN
SkipNRoms ==
    {Bytes(<<WB(6, x, a), WB(t, x, nn)>>) :
        x \in {0, 15}, a \in SkipVals, t \in {3, 4}, nn \in SkipVals}

\* 6X a ; 6Y b ; 5XYn or 9XYn
SkipVRoms ==
    {Bytes(<<WB(6, xy[1], a), WB(6, xy[2], b), W(t, xy[1], xy[2], n)>>) :
        xy \in {<<0, 1>>, <<1, 15>>, <<1, 1>>}, a \in SkipVals, b \in SkipVals,
        t \in {5, 9}, n \in {0, 1, 15}}

\* 6X a ; EXNN
SkipKeyRoms ==
    {Bytes(<<WB(6, x, a), WB(14, x, nn)>>) :
        x \in {0, 15}, a \in {3, 7, 15, 16, 255}, nn \in {158, 161, 0, 159}}

\* Words that match no listed opcode pattern, alone and after a draw.
OddWords == {0, 480, 225, 291, 239, 61695, 61440, 57344, 57503, 20497, 36879}

OddRoms ==
    {<< >>}
    \cup {Bytes(<<w>>) : w \in OddWords \cup {224, 238}}
    \cup {Bytes(<<WB(10, 0, FONT_BASE), W(13, 0, 0, 5), w>>) : w \in {480, 224, 0}}

\* 6X a ; FX15 or FX18 ; FY0A
KeyRoms ==
    {Bytes(<<WB(6, x, a), WB(15, x, t), WB(15, y, 10)>>) :
        x \in {0, 1}, y \in {0, 15}, a \in {0, 1, 3}, t \in {21, 24}}
    \cup {Bytes(<<WB(15, y, 10), WB(15, y, 10)>>) : y \in {0, 15}}

\* 6X a ; FX15 or FX18 ; 6X b ; FX15, FX18 or FX07
TimerRoms ==
    {Bytes(<<WB(6, x, a), WB(15, x, t), WB(6, x, b), WB(15, x, u)>>) :
        x \in {0, 15}, a \in {0, 1, 2, 4}, b \in {0, 2}, t \in {21, 24},
        u \in {21, 24, 7}}

\* 60 a ; 61 b ; ANNN ; FX55 ; 60 a2 ; 61 b2 ; FX65
StoreRoms ==
    {Bytes(<<WB(6, 0, ab[1]), WB(6, 1, ab[2]), WB(10, 0, 0) + nnn, WB(15, x, 85),
             WB(6, 0, 7), WB(6, 1, 9), WB(15, x, 101)>>) :
        ab \in {<<1, 2>>, <<255, 0>>, <<7, 9>>}, nnn \in {768, 4094, 4095, 4080},
        x \in {0, 1, 15}}

\* 6X vx ; 6Y vy ; ANNN ; DXYn ; DXYn
DrawRoms ==
    {Bytes(<<WB(6, xy[1], p[1]), WB(6, xy[2], p[2]), WB(10, 0, 0) + nnn,
             W(13, xy[1], xy[2], n), W(13, xy[1], xy[2], n)>>) :
        xy \in {<<0, 1>>, <<0, 15>>},
        p \in {<<0, 0>>, <<56, 27>>, <<56, 31>>, <<60, 0>>, <<62, 0>>, <<63, 31>>,
               <<10, 32>>},
        nnn \in {FONT_BASE, FONT_BASE + 5, 768, 4094},
        n \in {0, 1, 5}}

\* Jumps, calls and returns, the index register and the random draw.
FlowRoms ==
    {Bytes(<<WB(1, 2, 0)>>),
     Bytes(<<WB(2, 2, 0)>>),
     Bytes(<<WB(2, 2, 4), WB(1, 2, 2), WB(0, 0, 238)>>),
     Bytes(<<WB(6, 0, 4), WB(11, 2, 0), WB(1, 2, 4)>>),
     Bytes(<<WB(12, 0, 255)>>),
     Bytes(<<WB(12, 1, 15), WB(15, 1, 41), WB(15, 1, 51), WB(15, 1, 30)>>),
     Bytes(<<WB(6, 0, 200), WB(15, 0, 41), WB(15, 0, 51), WB(15, 0, 101)>>),
     Bytes(<<WB(6, 0, 1), WB(15, 0, 41)>>),
     Bytes(<<WB(2, 2, 4), WB(1, 2, 2), WB(2, 2, 8), WB(0, 0, 238),
             WB(0, 0, 238)>>)}

\* Images that end at, one byte before and one byte after address 0xFFF:
\* 1200 (a jump to itself), zeros, and 255 from offset 3582 on.
BigRoms ==
    {[k \in 1..len |-> IF k = 1 THEN 18 ELSE IF k >= 3583 THEN 255 ELSE 0] :
        len \in {3583, 3584, 3585}}

Roms ==
    AddRoms \cup ArithRoms \cup SkipNRoms \cup SkipVRoms \cup SkipKeyRoms
    \cup OddRoms \cup KeyRoms \cup TimerRoms \cup StoreRoms \cup DrawRoms
    \cup FlowRoms \cup BigRoms

\* The keys the host presses and releases (KEY_MAP maps all sixteen).
HostKeys == {3, 15}

\* ------------------------------------------------------------ transitions

\* main: Chip8::new() and chip8.init(rom)
Boot(roms) ==
    /\ rom \in roms
    /\ memory = init(new, rom).memory
    /\ stack = new.stack
    /\ v = new.v
    /\ i = new.i
    /\ pc = new.pc
    /\ delay_timer = new.delay_timer
    /\ sound_timer = new.sound_timer
    /\ keys = new.keys
    /\ screen = new.screen
    /\ halted = FALSE
    /\ beep = FALSE
    /\ tone = FALSE
    /\ cycles = 0

Init == Boot(Roms)

SetCore(c) ==
    /\ memory' = c.memory
    /\ stack' = c.stack
    /\ v' = c.v
    /\ i' = c.i
    /\ pc' = c.pc
    /\ delay_timer' = c.delay_timer
    /\ sound_timer' = c.sound_timer
    /\ keys' = c.keys
    /\ screen' = c.screen

\* The opcode the next cycle fetches (0 when the fetch itself panics).
NextOp == IF pc + 1 < MEM_SIZE THEN fetch_opcode(Core) ELSE 0

\* Only CXNN draws a sample; only FX29 adds two u8 values unguarded.
Samples == IF top_nibble(NextOp) = 12 THEN UniformRange ELSE {0}

Builds == IF top_nibble(NextOp) = 15 /\ get_nn(NextOp) = 41 THEN BOOLEAN ELSE {TRUE}

\* main: chip8.run_cycle(), in a run of at most `limit` cycles
Cycle(limit) ==
    /\ ~halted
    /\ cycles < limit
    /\ ~(top_nibble(NextOp) = 2 /\ Len(stack) >= MaxStack)
    /\ \E num \in Samples, checks \in Builds :
         LET r == run_cycle(Core, num, checks)
         IN /\ SetCore(r.c)
            /\ halted' = r.panicked
            /\ beep' = r.beep
    /\ tone' = FALSE
    /\ cycles' = cycles + 1
    /\ UNCHANGED rom

RunCycle == Cycle(MaxCycles)

\* main: the loop over KEY_MAP after input.update(): a pressed key is set to
\* 1, then a released key to 0.  A key neither pressed nor released keeps
\* the value one of the two gives it, so the updates are those that leave
\* some keys of HostKeys at 1 and the others at 0.
HostInput ==
    /\ ~halted
    /\ \E pressed \in SUBSET HostKeys :
         LET released == HostKeys \ pressed
         IN keys' = [k \in 0..(NUM_KEYS - 1) |->
                    IF k \in released THEN 0
                    ELSE IF k \in pressed THEN 1 ELSE keys[k]]
    /\ beep' = FALSE
    /\ tone' = FALSE
    /\ UNCHANGED << rom, memory, stack, v, i, pc, delay_timer, sound_timer,
                    screen, halted, cycles >>

\* Chip8::dec_timers, which main calls and chip8.rs does not define: each
\* timer above zero goes down by one, and the sound request is raised on the
\* tick that takes the sound timer from 1 to 0.
dec_timers(c) ==
    [c |-> [c EXCEPT !.delay_timer = IF @ > 0 THEN @ - 1 ELSE @,
                     !.sound_timer = IF @ > 0 THEN @ - 1 ELSE @],
     request |-> c.sound_timer = 1]

\* Chip8::play_sound, likewise: the request of the tick just made.
play_sound(d) == d.request

\* main: chip8.dec_timers(); if chip8.play_sound() { sink.append(..) }
HostTimer ==
    /\ ~halted
    /\ LET d == dec_timers(Core)
       IN /\ SetCore(d.c)
          /\ tone' = play_sound(d)
    /\ beep' = FALSE
    /\ UNCHANGED << rom, halted, cycles >>

Next == RunCycle \/ HostInput \/ HostTimer

Spec == Init /\ [][Next]_vars

\* 60FF ; AFFF ; F01E seven times ; 1204: a loop that keeps adding 255 to
\* the index register.
IndexRoms ==
    {Bytes(<<WB(6, 0, 255), WB(10, 15, 255)>>
           \o [k \in 1..7 |-> WB(15, 0, 30)] \o <<WB(1, 2, 4)>>)}

\* The same machine and host on the index-register loop, run for longer.
InitIndex == Boot(IndexRoms)

RunLongCycle == Cycle(MaxIndexCycles)

NextIndex == RunLongCycle \/ HostInput \/ HostTimer

SpecIndex == InitIndex /\ [][NextIndex]_vars

\* ----------------------------------------------------------------- claims

\* A step that is one call of run_cycle (no other step counts a cycle).
CycleStep == cycles' = cycles + 1

\* The instruction a cycle step executes, when its fetch is in range.
Fetches == pc + 1 < MEM_SIZE

OpX == get_opx(NextOp)

OpY == get_opy(NextOp)

Is8(n) == Fetches /\ top_nibble(NextOp) = 8 /\ get_n(NextOp) = n

IsF(nn) == Fetches /\ top_nibble(NextOp) = 15 /\ get_nn(NextOp) = nn

IsE(nn) == Fetches /\ top_nibble(NextOp) = 14 /\ get_nn(NextOp) = nn

\* The ROM is 6XNN ; 7XMM on one register.
IsAddRom ==
    /\ Len(rom) = 4
    /\ rom[1] \div 16 = 6
    /\ rom[3] \div 16 = 7
    /\ rom[1] % 16 = rom[3] % 16

\* C1: from a fresh core initialised with the image 6XNN ; 7XMM, after
\* exactly two cycles register X is (NN + MM) mod 256 and the program counter
\* is 0x204; the image 60 05 70 03 leaves register 0 = 8.
C1_SetThenAdd ==
    (IsAddRom /\ cycles = 2) =>
        /\ ~halted
        /\ v[rom[1] % 16] = (rom[2] + rom[4]) % 256
        /\ pc = 516
        /\ (rom = <<96, 5, 112, 3>> => v[0] = 8)

C1_Witness ==
    /\ IsAddRom
    /\ cycles = 2
    /\ rom[2] + rom[4] > 255
    /\ v[rom[1] % 16] = rom[2] + rom[4] - 256
    /\ pc = 516

\* C2: after 8XY5 (resp. 8XY7) with X in 0..14, register X is VX - VY
\* (resp. VY - VX) mod 256 and register 15 is 1 exactly when the subtraction
\* did not underflow (minuend >= subtrahend), 0 when it borrowed.
C2_SubFlagIsNoBorrow ==
    [][/\ (CycleStep /\ Is8(5) /\ OpX <= 14) =>
            /\ v'[OpX] = (v[OpX] - v[OpY] + 256) % 256
            /\ v'[15] = (IF v[OpX] >= v[OpY] THEN 1 ELSE 0)
       /\ (CycleStep /\ Is8(7) /\ OpX <= 14) =>
            /\ v'[OpX] = (v[OpY] - v[OpX] + 256) % 256
            /\ v'[15] = (IF v[OpY] >= v[OpX] THEN 1 ELSE 0)]_vars

\* C3: after 8XY4 with X in 0..14, register X is (VX + VY) mod 256 and
\* register 15 is 1 if VX + VY > 255 and 0 otherwise, VX and VY being the
\* values before the instruction; 250 + 10 leaves register X = 4, flag 1.
C3_AddCarry ==
    [][(CycleStep /\ Is8(4) /\ OpX <= 14) =>
            /\ v'[OpX] = (v[OpX] + v[OpY]) % 256
            /\ v'[15] = (IF v[OpX] + v[OpY] > 255 THEN 1 ELSE 0)
            /\ (v[OpX] = 250 /\ v[OpY] = 10 => v'[OpX] = 4 /\ v'[15] = 1)
            /\ ~halted']_vars

\* The ROM is 6X a ; 6Y b ; 8XYn.
IsArithRom(n) ==
    /\ Len(rom) = 6
    /\ rom[1] \div 16 = 6
    /\ rom[3] \div 16 = 6
    /\ rom[5] = 128 + (rom[1] % 16)
    /\ rom[6] = (rom[3] % 16) * 16 + n

C3_Witness ==
    /\ IsArithRom(4)
    /\ rom[2] = 250
    /\ rom[4] = 10
    /\ rom[1] # rom[3]
    /\ cycles = 3
    /\ v[rom[1] % 16] = 4
    /\ v[15] = 1

\* C4: at an FX0A instruction with no key pressed, a cycle leaves the program
\* counter, the registers, the index register, memory, the call stack, the
\* display buffer and both timers unchanged.
C4_BlockedCycleChangesNothing ==
    [][(CycleStep /\ IsF(10) /\ \A k \in 0..(NUM_KEYS - 1) : keys[k] # 1) =>
            UNCHANGED << pc, v, i, memory, stack, screen, delay_timer,
                         sound_timer >>]_vars

\* C5: a cycle never decrements the timers: after a cycle executing FX15
\* (resp. FX18) the delay (resp. sound) timer is register X, and after any
\* other cycle it is what it was before.
C5_CycleLeavesTimers ==
    [][CycleStep =>
            /\ delay_timer' = (IF IsF(21) THEN v[OpX] ELSE delay_timer)
            /\ sound_timer' = (IF IsF(24) THEN v[OpX] ELSE sound_timer)]_vars

\* The ROM is 60 a ; 61 b ; ANNN ; FX55 ; 60 a2 ; 61 b2 ; FX65.
IsStoreRom ==
    /\ Len(rom) = 14
    /\ rom[1] = 96
    /\ rom[3] = 97
    /\ rom[5] \div 16 = 10
    /\ rom[7] \div 16 = 15
    /\ rom[8] = 85
    /\ rom[9] = 96
    /\ rom[11] = 97
    /\ rom[13] = rom[7]
    /\ rom[14] = 101

StoreX == rom[7] % 16

StoreI == (rom[5] % 16) * 256 + rom[6]

\* Register k when FX55 runs, and when FX65 runs.
StoreSaved(k) == IF k = 0 THEN rom[2] ELSE IF k = 1 THEN rom[4] ELSE 0

StoreOverwritten(k) == IF k = 0 THEN rom[10] ELSE IF k = 1 THEN rom[12] ELSE 0

\* C6: FX55, then overwriting registers, then FX65 with the same index I
\* (I + X <= 4095, the saved bytes clear of the code) restores registers
\* 0..X to the values they had when FX55 ran and leaves the registers above
\* X as they were before FX65.
C6_SaveRestoreRoundTrip ==
    (/\ IsStoreRom
     /\ StoreI + StoreX <= 4095
     /\ StoreI >= ENTRY + Len(rom)
     /\ cycles = 7) =>
        /\ ~halted
        /\ \A k \in 0..(NUM_REGS - 1) :
              v[k] = IF k <= StoreX THEN StoreSaved(k) ELSE StoreOverwritten(k)

C6_Witness ==
    /\ IsStoreRom
    /\ StoreI + StoreX = 4095
    /\ StoreX = 1
    /\ cycles = 7
    /\ ~halted
    /\ v[0] = 255
    /\ rom[10] # 255
    /\ pc = ENTRY + 14

\* The ROM is 6X vx ; 6Y vy ; ANNN ; DXYn ; DXYn, with X # Y.
IsDrawRom ==
    /\ Len(rom) = 10
    /\ rom[1] \div 16 = 6
    /\ rom[3] \div 16 = 6
    /\ rom[1] # rom[3]
    /\ rom[5] \div 16 = 10
    /\ rom[7] = 208 + (rom[1] % 16)
    /\ rom[8] \div 16 = rom[3] % 16
    /\ rom[9] = rom[7]
    /\ rom[10] = rom[8]

DrawVx == rom[2]

DrawVy == rom[4]

DrawN == rom[8] % 16

DrawI == (rom[5] % 16) * 256 + rom[6]

\* The sprite's set bits as (row, column) pairs, read from the image and
\* the font table as loaded.
SpriteBits ==
    {yx \in (0..(DrawN - 1)) \X (0..7) :
        Bit(MemRead(init(new, rom).memory, DrawI + yx[1]), 7 - yx[2]) = 1}

SpriteInside ==
    /\ DrawI + DrawN <= MEM_SIZE
    /\ DrawVx + 7 <= WIDTH - 1
    /\ DrawVy + DrawN <= HEIGHT

SpriteCells == {DrawVx + yx[2] + WIDTH * (DrawVy + yx[1]) : yx \in SpriteBits}

\* The second draw is at the position of the first: a position register
\* that is the flag register holds, after the first draw, the flag 0.
SamePosition ==
    /\ rom[1] % 16 = 15 => DrawVx = 0
    /\ rom[3] % 16 = 15 => DrawVy = 0

\* C7: a sprite wholly inside the grid with a set bit, drawn on a clear
\* display, sets exactly the cells of its set bits with flag 0; drawn again
\* at the same position it restores the display and leaves flag 1.
C7_DrawTwiceRestores ==
    (IsDrawRom /\ SpriteInside /\ SpriteBits # {}) =>
        /\ cycles = 4 => (~halted /\ screen = SpriteCells /\ v[15] = 0)
        /\ (cycles = 5 /\ SamePosition) =>
              (~halted /\ screen = {} /\ v[15] = 1)

C7_Witness ==
    /\ IsDrawRom
    /\ SpriteInside
    /\ DrawN = 5
    /\ DrawVx = 56
    /\ DrawVy = 27
    /\ Cardinality(SpriteBits) = 14
    /\ cycles = 5
    /\ screen = {}
    /\ v[15] = 1

\* The opcode patterns of the instruction table.
Listed(op) ==
    LET t == top_nibble(op)
    IN \/ op = 224
       \/ op = 238
       \/ t \in {1, 2, 3, 4, 6, 7, 10, 11, 12, 13}
       \/ t \in {5, 9} /\ get_n(op) = 0
       \/ t = 8 /\ get_n(op) \in {0, 1, 2, 3, 4, 5, 6, 7, 14}
       \/ t = 14 /\ get_nn(op) \in {158, 161}
       \/ t = 15 /\ get_nn(op) \in {7, 10, 21, 24, 30, 41, 51, 85, 101}

\* C8: a cycle on an instruction word that matches no listed pattern is a
\* fatal error and changes no register, memory byte, stack entry, display
\* cell or the program counter.
C8_UnlistedWordFaults ==
    [][(CycleStep /\ Fetches /\ ~Listed(NextOp)) =>
            /\ halted'
            /\ UNCHANGED << v, i, memory, stack, screen, pc >>]_vars

\* The condition of the skip opcode about to run.
SkipCondition ==
    CASE top_nibble(NextOp) = 3 -> v[OpX] = get_nn(NextOp)
      [] top_nibble(NextOp) = 4 -> v[OpX] # get_nn(NextOp)
      [] top_nibble(NextOp) = 5 -> v[OpX] = v[OpY]
      [] top_nibble(NextOp) = 9 -> v[OpX] # v[OpY]
      [] IsE(158) -> keys[v[OpX]] = 1
      [] IsE(161) -> keys[v[OpX]] # 1

IsSkipOp ==
    /\ Fetches
    /\ \/ top_nibble(NextOp) \in {3, 4}
       \/ top_nibble(NextOp) \in {5, 9} /\ get_n(NextOp) = 0
       \/ (IsE(158) \/ IsE(161)) /\ v[OpX] < NUM_KEYS

\* C9: a cycle on 3XNN, 4XNN, 5XY0, 9XY0, EX9E or EXA1 (register X a key
\* number for the last two) advances the program counter by 4 when the
\* opcode's condition holds and by 2 otherwise, and changes no register, the
\* index register, memory, the stack, the display or the keys.
C9_SkipAdvance ==
    [][(CycleStep /\ IsSkipOp) =>
            /\ ~halted'
            /\ pc' = pc + (IF SkipCondition THEN 4 ELSE 2)
            /\ UNCHANGED << v, i, memory, stack, screen, keys >>]_vars

\* A key-skip taken with the key down: 6X 0F ; EX9E run with key 15 pressed.
C9_Witness ==
    /\ Len(rom) = 4
    /\ rom[1] \div 16 = 6
    /\ rom[2] = 15
    /\ rom[3] \div 16 = 14
    /\ rom[4] = 158
    /\ keys[15] = 1
    /\ cycles = 2
    /\ pc = ENTRY + 6
    /\ ~halted

\* The sound timer as the step's decrement finds it: the value FX18 has just
\* written when the step is a cycle executing FX18, else the value it had.
SoundBeforeDecrement ==
    IF CycleStep /\ IsF(24) THEN v[OpX] ELSE sound_timer

\* C10: a tone is requested by exactly the steps whose decrement takes the
\* sound timer from 1 to 0; a decrement takes one off the timer, so after
\* FX18 sets it to v >= 1 the tone comes on the v-th decrement, and none
\* comes while the timer is 0 or goes down from above 1.
C10_ToneOnLastDecrement ==
    [][/\ (beep' \/ tone') <=> (SoundBeforeDecrement = 1 /\ sound_timer' = 0)
       /\ sound_timer' \in {SoundBeforeDecrement, SoundBeforeDecrement - 1}
       /\ sound_timer' >= 0]_vars

\* The tone of an FX18 that set the timer to 2: the cycle of 6X 02 ; FX18
\* decrements it to 1, and the cycle after it prints BEEP taking it to 0.
C10_Witness ==
    /\ Len(rom) = 8
    /\ rom[2] = 2
    /\ rom[4] = 24
    /\ cycles = 3
    /\ sound_timer = 0
    /\ beep
    /\ ~tone

\* A timer decrement that stops at zero.
Saturating(t) == IF t > 0 THEN t - 1 ELSE 0

\* The delay timer as the step's decrement finds it (see SoundBeforeDecrement).
DelayBeforeDecrement ==
    IF CycleStep /\ IsF(21) THEN v[OpX] ELSE delay_timer

\* C11: a timer decrement takes a timer holding t > 0 to t - 1 and leaves a
\* timer holding 0 at 0, never wrapping to 255; the two timers are
\* decremented together, each by its own decrement only; a step that
\* decrements nothing leaves both as they are.
C11_TimersSaturate ==
    [][/\ (CycleStep /\ ~halted') =>
            /\ delay_timer' = Saturating(DelayBeforeDecrement)
            /\ sound_timer' = Saturating(SoundBeforeDecrement)
       /\ (CycleStep /\ halted') => UNCHANGED << delay_timer, sound_timer >>
       /\ ~CycleStep =>
            \/ UNCHANGED << delay_timer, sound_timer >>
            \/ /\ delay_timer' = Saturating(delay_timer)
               /\ sound_timer' = Saturating(sound_timer)
       /\ delay_timer' \in 0..255
       /\ sound_timer' \in 0..255]_vars

\* 6X 01 ; FX15 ; 6X 02 ; FX07: the delay timer set to 1 is 0 after the
\* decrement of the FX15 cycle, still 0 after the next, and FX07 reads 0.
C11_Witness ==
    /\ Len(rom) = 8
    /\ rom[2] = 1
    /\ rom[4] = 21
    /\ rom[6] = 2
    /\ rom[8] = 7
    /\ cycles = 4
    /\ delay_timer = 0
    /\ v[rom[1] % 16] = 0
    /\ ~halted

\* C12: 00EE with an empty call stack is fatal: the core halts, with the
\* program counter, registers, index register, memory, display, timers and
\* the empty stack as they were before the cycle.
C12_ReturnOnEmptyStackFaults ==
    [][(CycleStep /\ Fetches /\ NextOp = 238 /\ Len(stack) = 0) =>
            /\ halted'
            /\ UNCHANGED << pc, v, i, memory, screen, stack, delay_timer,
                            sound_timer >>]_vars

C12_Witness ==
    /\ rom = <<0, 238>>
    /\ cycles = 1
    /\ halted
    /\ pc = ENTRY
    /\ stack = << >>

\* C13: an image longer than the space 0x200..0xFFF (more than 3584 bytes)
\* makes initialisation fail before any cycle runs: the core never runs on
\* a truncated image.
C13_OversizeImageRejected ==
    Len(rom) > MEM_SIZE - ENTRY => (halted /\ cycles = 0)

\* C14: FX29 sets the index register to 0x050 + 5 * (VX mod 16), the first
\* byte of the glyph of the low nibble of VX, and never faults.
C14_FontAddress ==
    [][(CycleStep /\ IsF(41)) =>
            /\ ~halted'
            /\ i' = FONT_BASE + 5 * (v[OpX] % 16)]_vars

\* C15: the values register X can hold after CXNN are exactly the values
\* r AND NN for r in 0..255.
C15_RandomCoversEveryByte ==
    (~halted /\ cycles < MaxCycles /\ Fetches /\ top_nibble(NextOp) = 12) =>
        {run_cycle(Core, num, TRUE).c.v[OpX] : num \in Samples}
            = {BitAnd(r, get_nn(NextOp)) : r \in 0..255}

\* C16: 2NNN at address A pushes A, growing the stack by exactly one entry,
\* and sets pc to NNN; 00EE on a non-empty stack removes the newest entry A,
\* leaves the entries below it as they were and sets pc to A + 2.  With the
\* stack a last-in-first-out sequence, the 00EE matching a call made at A
\* resumes at A + 2.
C16_CallReturnLifo ==
    [][/\ (CycleStep /\ Fetches /\ top_nibble(NextOp) = 2) =>
            /\ ~halted'
            /\ stack' = Append(stack, pc)
            /\ pc' = get_addr(NextOp)
       /\ (CycleStep /\ Fetches /\ NextOp = 238 /\ Len(stack) > 0) =>
            /\ ~halted'
            /\ stack' = SubSeq(stack, 1, Len(stack) - 1)
            /\ pc' = stack[Len(stack)] + 2]_vars

\* 2204 ; 1202 ; 2208 ; 00EE ; 00EE: after the calls at 0x200 and 0x204, the
\* first return resumes at 0x206 with the entry of the outer call in place.
C16_Witness ==
    /\ rom = Bytes(<<WB(2, 2, 4), WB(1, 2, 2), WB(2, 2, 8), WB(0, 0, 238),
                     WB(0, 0, 238)>>)
    /\ cycles = 3
    /\ pc = ENTRY + 6
    /\ stack = <<ENTRY>>
    /\ ~halted

\* C17: a draw changes only cells addressed by set sprite bits in the
\* screen row of their sprite row, VY + k, at column VX + x (or, wrapping,
\* row (VY + k) mod 32 and column (VX + x) mod 64), and the display never
\* holds a cell index outside 0..2047.
C17_DrawStaysInRow ==
    [][(CycleStep /\ Fetches /\ top_nibble(NextOp) = 13) =>
            LET vx == v[OpX]
                vy == v[OpY]
                bits == {kx \in (0..(get_n(NextOp) - 1)) \X (0..7) :
                            /\ i + kx[1] < MEM_SIZE
                            /\ Bit(MemRead(memory, i + kx[1]), 7 - kx[2]) = 1}
                clipped == {vx + kx[2] + WIDTH * (vy + kx[1]) :
                               kx \in {b \in bits : /\ vx + b[2] < WIDTH
                                                    /\ vy + b[1] < HEIGHT}}
                wrapped == {((vx + kx[2]) % WIDTH)
                               + WIDTH * ((vy + kx[1]) % HEIGHT) : kx \in bits}
                changed == (screen' \ screen) \cup (screen \ screen')
            IN /\ changed \subseteq (clipped \cup wrapped)
               /\ screen' \subseteq 0..(WIDTH * HEIGHT - 1)]_vars

\* C18: after initialisation with an image of at most 3584 bytes, memory
\* holds image byte k at 0x200 + k, the font table at 0x050..0x09F and 0
\* elsewhere; pc is 0x200; registers, index register, timers, stack and
\* display are zero or empty.
C18_InitialState ==
    (cycles = 0 /\ Len(rom) <= MEM_SIZE - ENTRY) =>
        /\ \A k \in 0..(Len(rom) - 1) : MemRead(memory, ENTRY + k) = rom[k + 1]
        /\ \A k \in 0..(Len(CHIP8_FONTSET) - 1) :
              MemRead(memory, FONT_BASE + k) = CHIP8_FONTSET[k + 1]
        /\ \A a \in 0..(MEM_SIZE - 1) :
              (/\ a \notin FONT_BASE..(FONT_BASE + Len(CHIP8_FONTSET) - 1)
               /\ a \notin ENTRY..(ENTRY + Len(rom) - 1))
              => MemRead(memory, a) = 0
        /\ pc = ENTRY
        /\ v = [r \in 0..(NUM_REGS - 1) |-> 0]
        /\ i = 0
        /\ delay_timer = 0
        /\ sound_timer = 0
        /\ stack = << >>
        /\ screen = {}

\* The keys held down.
Pressed == {k \in 0..(NUM_KEYS - 1) : keys[k] = 1}

\* C20: a cycle at FX0A with some key pressed sets register X to the lowest
\* pressed key, advances pc by exactly 2 and changes no other register;
\* with no key pressed it moves neither pc nor any register.  So the first
\* cycle after a key becomes pressed leaves the blocked state.
C20_WaitKeyTakesLowest ==
    [][(CycleStep /\ IsF(10)) =>
            /\ ~halted'
            /\ Pressed # {} =>
                 /\ v' = [v EXCEPT ![OpX] = Min(Pressed)]
                 /\ pc' = pc + 2
            /\ Pressed = {} =>
                 /\ v' = v
                 /\ pc' = pc]_vars

\* FX0A ; FX0A: one cycle blocked with no key down, then keys 3 and 15 go
\* down and the next cycle stores 3 and moves on.
C20_Witness ==
    /\ Len(rom) = 4
    /\ rom[1] \div 16 = 15
    /\ rom[2] = 10
    /\ cycles = 2
    /\ pc = ENTRY + 2
    /\ Pressed = {3, 15}
    /\ v[rom[1] % 16] = 3
    /\ ~halted

\* C19: the index register is a 16-bit value in every reachable state:
\* FX1E adds modulo 65536, so no sequence of ANNN, FX1E and FX29, such as
\* FX1E with VX = 255 in a loop, takes it outside 0..65535.
C19_IndexIs16Bit == i \in 0..65535

\* C21: immediately after 8XY4, 8XY5, 8XY6, 8XY7, 8XYE or DXYN, register
\* 15 holds 0 or 1, for every X and Y (X = 15 included) and every prior
\* register contents.
C21_FlagIsZeroOrOne ==
    [][(/\ CycleStep
        /\ ~halted'
        /\ \/ \E n \in {4, 5, 6, 7, 14} : Is8(n)
           \/ Fetches /\ top_nibble(NextOp) = 13) =>
            v'[15] \in {0, 1}]_vars

====
